---- MODULE Spec2Model ----
(***************************************************************************)
(* A model of pyupbit.PyUpbit (src/pyupbit/pyupbit.py): the client's       *)
(* construction, its endpoint methods, the request signer, the transport   *)
(* wrappers and the order validators.                                      *)
(*                                                                         *)
(* Python values are tagged records ([t |-> "None"], [t |-> "str", ...]).  *)
(* Python floats are IEEE-754 binary64 numbers, kept exactly: a float is   *)
(* [neg, m, e] with value (-1)^neg * m * 2^e, where m is a natural number  *)
(* of exactly 53 bits (or 0) held as little-endian 14-bit limbs.  Every    *)
(* float operation the source performs (float(), *, %, int(), <=, <) is    *)
(* computed exactly and rounded once to nearest-even, as the interpreter   *)
(* does.                                                                   *)
(***************************************************************************)
EXTENDS Integers, Sequences, FiniteSets, TLC

(***************************************************************************)
(* Natural numbers wider than the checker's integers: Width limbs of 14    *)
(* bits, least significant first.  The operations are written without      *)
(* recursion over the limbs (carries by look-ahead, division by modular    *)
(* powers), so that each is evaluated at a fixed depth.                    *)
(***************************************************************************)
Width == 10

\* e, with v evaluated before it: the checker would otherwise evaluate v
\* only where e first reads it, nested inside e's own evaluation
First(v, e) == CASE v = v -> e

Limb == 2^14

Idx == 1..Width

At(a, i) == IF i >= 1 /\ i <= Width THEN a[i] ELSE 0

\* the limbs as a tuple (the function is evaluated once, here)
Limbs(f) == [i \in Idx |-> f[i]] \o <<>>

BigZero == [i \in Idx |-> 0] \o <<>>

\* n < 2^31
BigFromInt(n) ==
  Limbs([i \in Idx |-> IF i = 1 THEN n % Limb
                       ELSE IF i = 2 THEN (n \div Limb) % Limb
                       ELSE IF i = 3 THEN n \div (Limb * Limb)
                       ELSE 0])

\* one carry pass over columns that may exceed a limb
Pass(c) == Limbs([i \in Idx |-> (c[i] % Limb) + (At(c, i - 1) \div Limb)])

\* columns c[i] < 2^31 to limbs: three passes leave every column <= Limb,
\* and the last carries (0 or 1) are decided by look-ahead
CarryIn(p, i) ==
  \E j \in 1..(i - 1) : p[j] = Limb /\ \A k \in (j + 1)..(i - 1) : p[k] = Limb - 1

Resolve(p) ==
  First(p, Limbs([i \in Idx |-> (p[i] + (IF CarryIn(p, i) THEN 1 ELSE 0)) % Limb]))

Carry(c) == Resolve(Pass(Pass(Pass(c))))

BigAdd(a, b) == Carry([i \in Idx |-> a[i] + b[i]])

\* a * b for a < 2^56 (four limbs): column k sums a[i] * b[k + 1 - i]
BigMul(a, b) ==
  Carry([k \in Idx |-> a[1] * At(b, k) + a[2] * At(b, k - 1)
                       + a[3] * At(b, k - 2) + a[4] * At(b, k - 3)])

\* a * 2^s
BigShl(a, s) ==
  LET j == s \div 14
      r == s % 14
  IN  Limbs([i \in Idx |-> ((At(a, i - j) * 2^r) % Limb)
                           + (At(a, i - j - 1) \div 2^(14 - r))])

\* floor(a / 2^s), and whether a one bit was shifted out
BigShr(a, s) ==
  LET j == s \div 14
      r == s % 14
  IN  [q |-> Limbs([i \in Idx |-> (At(a, i + j) \div 2^r)
                                  + ((At(a, i + j + 1) % 2^r) * 2^(14 - r))]),
       sticky |-> \/ \E i \in Idx : i <= j /\ a[i] # 0
                  \/ (At(a, j + 1) % 2^r) # 0]

BigIsZero(a) == \A i \in Idx : a[i] = 0

\* index of the most significant nonzero limb (0 for zero)
TopLimb(a) ==
  IF BigIsZero(a) THEN 0
  ELSE CHOOSE i \in Idx : a[i] # 0 /\ \A k \in (i + 1)..Width : a[k] = 0

BitsOf(n) == Cardinality({b \in 0..13 : n >= 2^b})

BitLenAt(a, t) == IF t = 0 THEN 0 ELSE 14 * (t - 1) + BitsOf(a[t])

BitLen(a) == BitLenAt(a, TopLimb(a))

\* -1, 0, 1 as a < b, a = b, a > b
BigCmp(a, b) ==
  IF \A i \in Idx : a[i] = b[i] THEN 0
  ELSE LET t == CHOOSE i \in Idx :
                   a[i] # b[i] /\ \A k \in (i + 1)..Width : a[k] = b[k]
       IN  IF a[t] < b[t] THEN -1 ELSE 1

\* sum of f[lo..hi], halving the range
RECURSIVE SumOf(_, _, _)
SumOf(f, lo, hi) ==
  IF lo > hi THEN 0
  ELSE IF lo = hi THEN f[lo]
  ELSE LET mid == (lo + hi) \div 2
       IN  SumOf(f, lo, mid) + SumOf(f, mid + 1, hi)

\* b^p mod d for b, d <= Limb, by squaring
RECURSIVE PowMod(_, _, _)
PowMod(b, p, d) ==
  IF p = 0 THEN 1 % d
  ELSE LET h == PowMod(b, p \div 2, d)
           s == (h * h) % d
       IN  IF p % 2 = 1 THEN (s * (b % d)) % d ELSE s

\* a mod d of the limbs above limb i (d <= Limb)
HighMod(a, d, i) ==
  LET t == [j \in Idx |-> IF j > i THEN (a[j] * PowMod(Limb % d, j - i - 1, d)) % d
                          ELSE 0] \o <<>>
  IN  SumOf(t, 1, Width) % d

\* a divided by a small d <= Limb: quotient and remainder
BigDivSmall(a, d) ==
  [q |-> Limbs([i \in Idx |-> (HighMod(a, d, i) * Limb + a[i]) \div d]),
   r |-> HighMod(a, d, 0)]

BigIsOdd(a) == a[1] % 2 = 1

(***************************************************************************)
(* Python float: IEEE-754 binary64.  A float is zero (m = 0, e = 0) or     *)
(* normalised: 2^52 <= m < 2^53.  The inputs of the model stay far from    *)
(* the subnormal and overflow ranges.                                      *)
(***************************************************************************)

\* A decimal literal (-1)^neg * n * 10^(-k): what a caller writes or passes
\* as text, an int or a float literal (n < 2^31).
Dec(neg, n, k) == [neg |-> neg, n |-> n, k |-> k]

\* Round the exact value mag * 2^e (plus a nonzero tail below it when
\* sticky) to the nearest binary64, ties to even.
\* m1 has 53 bits, or 54 after a carry out of the top
Renormalise(neg, m1, e) ==
  IF BitLen(m1) = 54 THEN [neg |-> neg, m |-> BigShr(m1, 1).q, e |-> e + 1]
  ELSE [neg |-> neg, m |-> m1, e |-> e]

\* h.q is the 53 kept bits, h.sticky the first dropped bit, tail the rest
RoundUp(neg, h, e, tail) ==
  IF h.sticky /\ (tail \/ BigIsOdd(h.q))
  THEN Renormalise(neg, BigAdd(h.q, BigFromInt(1)), e)
  ELSE Renormalise(neg, h.q, e)

\* x.q is the 54 leading bits
RoundCut(neg, x, e, sticky) == First(x, RoundUp(neg, BigShr(x.q, 1), e, x.sticky \/ sticky))

RoundLen(neg, mag, e, sticky, len) ==
  IF len = 0 THEN [neg |-> FALSE, m |-> BigZero, e |-> 0]
  ELSE IF len <= 53
  THEN [neg |-> neg, m |-> BigShl(mag, 53 - len), e |-> e - (53 - len)]
  ELSE RoundCut(neg, BigShr(mag, len - 54), e + (len - 53), sticky)

RoundHalfEven(neg, mag, e, sticky) == First(mag, RoundLen(neg, mag, e, sticky, BitLen(mag)))

\* floor(mag / 5^k), six powers of five at a time (5^6 < 2^14), with the
\* remainders' sticky bit
RECURSIVE BigDivPow5(_, _, _)
DivStep(d, k, sticky) == First(d, BigDivPow5(d.q, k, sticky \/ d.r # 0))

BigDivPow5(mag, k, sticky) ==
  IF k = 0 THEN [q |-> mag, sticky |-> sticky]
  ELSE IF k > 6 THEN DivStep(BigDivSmall(mag, 5^6), k - 6, sticky)
  ELSE DivStep(BigDivSmall(mag, 5^k), 0, sticky)

\* mag * 10^k, nine powers of ten at a time (10^9 < 2^31)
RECURSIVE BigMulPow10(_, _)
BigMulPow10(mag, k) ==
  IF k = 0 THEN mag
  ELSE IF k > 9 THEN First(mag, BigMulPow10(BigMul(BigFromInt(10^9), mag), k - 9))
  ELSE First(mag, BigMul(BigFromInt(10^k), mag))

\* float(x) of a decimal literal: the correctly rounded binary64.
\* n / 10^k = (n * 2^s / 5^k) * 2^(-s-k), with s large enough to leave
\* more than 53 quotient bits.
RoundQuotient(neg, x, e) == First(x, RoundHalfEven(neg, x.q, e, x.sticky))

ToFloat(d) ==
  IF d.k <= 0
  THEN RoundHalfEven(d.neg, BigMulPow10(BigFromInt(d.n), 0 - d.k), 0, FALSE)
  ELSE RoundQuotient(d.neg, BigDivPow5(BigShl(BigFromInt(d.n), 56 + 3 * d.k), d.k, FALSE),
                     0 - (56 + 3 * d.k) - d.k)

\* an int constant of the source, as the float it is promoted to
IntFloat(n) == RoundHalfEven(FALSE, BigFromInt(n), 0, FALSE)

\* x * y: the exact product, rounded once
FloatMul(x, y) ==
  First(x, First(y, RoundHalfEven(x.neg # y.neg, BigMul(x.m, y.m), x.e + y.e, FALSE)))

FloatIsZero(x) == BigIsZero(x.m)

\* -1, 0, 1 as |x| < |y|, |x| = |y|, |x| > |y|
MagCmp(x, y) ==
  IF FloatIsZero(x) \/ FloatIsZero(y)
  THEN (IF FloatIsZero(x) /\ FloatIsZero(y) THEN 0
        ELSE IF FloatIsZero(x) THEN -1 ELSE 1)
  ELSE IF x.e < y.e THEN -1
  ELSE IF x.e > y.e THEN 1
  ELSE BigCmp(x.m, y.m)

FloatCmp(x, y) ==
  IF x.neg /\ ~y.neg THEN -1
  ELSE IF ~x.neg /\ y.neg THEN 1
  ELSE IF x.neg THEN 0 - MagCmp(x, y)
  ELSE MagCmp(x, y)

FloatLe(x, y) == FloatCmp(x, y) <= 0
FloatLt(x, y) == FloatCmp(x, y) < 0

\* x == int(x): int() truncates toward zero, so this is "x is integral"
FloatIsInt(x) ==
  \/ FloatIsZero(x)
  \/ x.e >= 0
  \/ x.e > 0 - 53 /\ ~BigShr(x.m, 0 - x.e).sticky

\* (x % c) == 0 for an int constant c <= 2^14: the float remainder is exact
FloatModIsZero(x, c) ==
  /\ FloatIsInt(x)
  /\ IF x.e >= 0
     THEN (BigDivSmall(x.m, c).r * PowMod(2, x.e, c)) % c = 0
     ELSE BigDivSmall(BigShr(x.m, 0 - x.e).q, c).r = 0

(***************************************************************************)
(* Python values.  A str is a tuple of pieces of text: a market symbol is  *)
(* spelled character by character (the validators split it at '-'), any    *)
(* other text is one piece.  A dict is the tuple of its <<key, value>>     *)
(* items in insertion order.  A number an argument carries is the decimal  *)
(* literal the caller wrote.                                               *)
(***************************************************************************)
PyNone == [t |-> "None"]

PyStr(s) == [t |-> "str", v |-> s]

PyInt(n) == [t |-> "int", n |-> n]

PyBool(b) == [t |-> "bool", b |-> b]

PyNum(d) == [t |-> "num", d |-> d]

PyList(s) == [t |-> "list", items |-> s]

PyDict(s) == [t |-> "dict", pairs |-> s]

\* bool(x): the truth value of `if x`, `not x`, any([...])
Truthy(x) ==
  IF x.t = "None" THEN FALSE
  ELSE IF x.t = "str" THEN Len(x.v) > 0
  ELSE IF x.t = "list" THEN Len(x.items) > 0
  ELSE IF x.t = "dict" THEN Len(x.pairs) > 0
  ELSE IF x.t = "int" THEN x.n # 0
  ELSE IF x.t = "bool" THEN x.b
  ELSE IF x.t = "num" THEN x.d.n # 0
  ELSE TRUE

\* a market symbol 'QUOTE-BASE', spelled out
Sym(quote, base) == PyStr(quote \o <<"-">> \o base)

KRW == PyStr(<<"K", "R", "W">>)

BTC == PyStr(<<"B", "T", "C">>)

ETH == PyStr(<<"E", "T", "H">>)

USDT == PyStr(<<"U", "S", "D", "T">>)

\* s.split('-')[0]: the text before the first '-' (all of it without one)
SplitFirst(s) ==
  LET dashes == {i \in 1..Len(s.v) : s.v[i] = "-"}
      cut    == IF dashes = {} THEN Len(s.v) + 1
                ELSE CHOOSE i \in dashes : \A j \in dashes : i <= j
  IN  PyStr(SubSeq(s.v, 1, cut - 1))

\* the decimal digits of n >= 0, one piece per digit
RECURSIVE Digits(_)
Digits(n) == IF n < 10 THEN <<ToString(n)>> ELSE Digits(n \div 10) \o <<ToString(n % 10)>>

RECURSIVE Zeros(_)
Zeros(k) == IF k <= 0 THEN <<>> ELSE <<"0">> \o Zeros(k - 1)

\* str(x) of a number written n * 10^(-k): the digits of an int for
\* k <= 0, digits around a point for k > 0; of text, the text
StrOf(x) ==
  IF x.t = "str" THEN x
  ELSE IF x.t = "None" THEN PyStr(<<"None">>)
  ELSE IF x.t = "int" THEN PyStr(Digits(x.n))
  ELSE IF x.t = "num"
  THEN LET d    == x.d
           sign == IF d.neg THEN <<"-">> ELSE <<>>
           ds   == Digits(d.n)
       IN  IF d.k <= 0 THEN PyStr(sign \o ds \o (IF d.n = 0 THEN <<>> ELSE Zeros(0 - d.k)))
           ELSE LET all == Zeros(d.k + 1 - Len(ds)) \o ds
                IN  PyStr(sign \o SubSeq(all, 1, Len(all) - d.k) \o <<".">>
                        \o SubSeq(all, Len(all) - d.k + 1, Len(all)))
  ELSE PyStr(<<"?">>)

\* how a call ends: a returned value or a raised exception
Return(v) == [kind |-> "return", value |-> v]

Raise(type, msg) == [kind |-> "raise", type |-> type, msg |-> msg]

(***************************************************************************)
(* The order validators.                                                   *)
(***************************************************************************)

\* the KRW tick ladder of _is_valid_price on the float p
\* the upper bounds the if/elif chain tests, in its order
KrwBounds == <<10, 100, 1000, 10000, 100000, 500000, 1000000, 2000000>>

\* the branch of the chain taken: the first bound with price <= bound
\* (the else branch, 9, past the last)
KrwBranch(p) ==
  LET under == {i \in 1..Len(KrwBounds) : FloatLe(p, IntFloat(KrwBounds[i]))}
  IN  IF under = {} THEN Len(KrwBounds) + 1
      ELSE CHOOSE i \in under : \A j \in under : i <= j

\* branches 1, 2: (price * c) == int(price * c); branch 3: price == int(price);
\* branches 4..9: (price % c) == 0
KrwFactor == <<100, 10, 1, 5, 10, 50, 100, 500, 1000>>

KrwTest(p, b) ==
  IF b <= 2 THEN FloatIsInt(FloatMul(p, IntFloat(KrwFactor[b])))
  ELSE IF b = 3 THEN FloatIsInt(p)
  ELSE FloatModIsZero(p, KrwFactor[b])

KrwLadder(p) == KrwTest(p, KrwBranch(p))

\* float(x): a number converts, PyNone does not
FloatOf(x) ==
  IF x.t = "num" THEN Return(ToFloat(x.d))
  ELSE Raise("TypeError", <<"float() argument must be a string or a number">>)

\* ValidPriceOf without the test of the base: no branch is taken for an
\* unknown base, and the method returns None
ValidPriceAnyBase(base, f) ==
  IF f.kind = "raise" THEN f
  ELSE IF base = KRW THEN Return(PyBool(KrwLadder(f.value)))
  ELSE IF base \in {BTC, ETH}
  THEN Return(PyBool(FloatIsInt(FloatMul(f.value, IntFloat(100000000)))))
  ELSE IF base = USDT THEN Return(PyBool(FloatIsInt(FloatMul(f.value, IntFloat(1000)))))
  ELSE Return(PyNone)

\* _is_valid_price past its first two statements: f is float(price),
\* base is market.split('-')[0]
ValidPriceOf(base, f) ==
  IF f.kind = "raise" THEN f
  ELSE IF base \notin {KRW, BTC, ETH, USDT}
  THEN Raise("Exception", <<"invalid base coin ">> \o base.v)
  ELSE IF base = KRW THEN Return(PyBool(KrwLadder(f.value)))
  ELSE IF base \in {BTC, ETH}
  THEN Return(PyBool(FloatIsInt(FloatMul(f.value, IntFloat(100000000)))))
  ELSE Return(PyBool(FloatIsInt(FloatMul(f.value, IntFloat(1000)))))

_is_valid_price(market, price) == ValidPriceOf(SplitFirst(market), FloatOf(price))

\* the float 0.0005 of the source text
MinOther == ToFloat(Dec(FALSE, 5, 4))

\* the comparisons of _is_above_min on prod = price * volume; no branch
\* is taken for another base, and the method returns None
AboveMinOf(base, prod) ==
  IF base = KRW THEN Return(PyBool(~FloatLt(prod, IntFloat(500))))
  ELSE IF base \in {BTC, ETH, USDT} THEN Return(PyBool(~FloatLt(prod, MinOther)))
  ELSE Return(PyNone)

\* _is_above_min past its conversions: fp is float(price), fv float(volume)
AboveMinFloats(market, fp, fv) ==
  IF fp.kind = "raise" THEN fp
  ELSE IF fv.kind = "raise" THEN fv
  ELSE AboveMinOf(SplitFirst(market), FloatMul(fp.value, fv.value))

_is_above_min(market, price, volume) == AboveMinFloats(market, FloatOf(price), FloatOf(volume))

(***************************************************************************)
(* The transport.  A response is what requests hands back for one call:    *)
(* a status code and a body text, or an exception raised in the library    *)
(* (no connection).  An exchange records one HTTP request with the         *)
(* keyword arguments it was sent with and the response it got.             *)
(***************************************************************************)

\* a keyword argument that was not passed
Absent == [t |-> "absent"]

Response(status_code, text) == [kind |-> "response", status_code |-> status_code, text |-> text]

NoConnection == [kind |-> "error"]

\* the result of running a method: the exchanges it made, and how it ended
Ran(http, outcome) == [http |-> http, outcome |-> outcome]

NoHttp(outcome) == Ran(<<>>, outcome)

Exchange(verb, url, kw, resp) ==
  [verb |-> verb, url |-> url, headers |-> kw.headers, params |-> kw.params,
   data |-> kw.data, resp |-> resp]

\* JSON text, piece by piece, of a value
RECURSIVE JsonDumps(_)
RECURSIVE JsonItems(_, _)
JsonItems(x, i) ==
  LET n   == IF x.t = "dict" THEN Len(x.pairs) ELSE Len(x.items)
      one == IF x.t = "dict"
             THEN JsonDumps(x.pairs[i][1]) \o <<":">> \o JsonDumps(x.pairs[i][2])
             ELSE JsonDumps(x.items[i])
  IN  IF i > n THEN <<>>
      ELSE IF i = n THEN one
      ELSE one \o <<",">> \o JsonItems(x, i + 1)

JsonDumps(x) ==
  IF x.t = "None" THEN <<"null">>
  ELSE IF x.t = "bool" THEN (IF x.b THEN <<"true">> ELSE <<"false">>)
  ELSE IF x.t = "int" THEN Digits(x.n)
  ELSE IF x.t = "str" THEN <<"\"">> \o x.v \o <<"\"">>
  ELSE IF x.t = "list" THEN <<"[">> \o JsonItems(x, 1) \o <<"]">>
  ELSE <<"{">> \o JsonItems(x, 1) \o <<"}">>

\* the catalog entries of the exchange, and what a market-list body may
\* hold instead of them
Listed == <<Sym(KRW.v, BTC.v), Sym(BTC.v, ETH.v), Sym(USDT.v, BTC.v),
            Sym(<<"E", "U", "R">>, BTC.v)>>

Unlisted == Sym(KRW.v, <<"X", "R", "P">>)

MarketEntry(sym) ==
  PyDict(<<<<PyStr(<<"market">>), sym>>, <<PyStr(<<"english_name">>), PyStr(<<"coin">>)>>>>)

MarketList == PyList([i \in 1..Len(Listed) |-> MarketEntry(Listed[i])] \o <<>>)

OrderInfo == PyDict(<<<<PyStr(<<"uuid">>), PyStr(<<"80bca2cc">>)>>>>)

ErrorInfo == PyDict(<<<<PyStr(<<"error">>), PyStr(<<"not_found">>)>>>>)

\* the JSON values a body may spell
JsonValues ==
  {PyNone, PyList(<<>>), MarketList, OrderInfo, PyList(<<OrderInfo>>), ErrorInfo}

\* json.loads(text): the value the text spells, ValueError for any other text
JsonLoads(text) ==
  IF \E x \in JsonValues : JsonDumps(x) = text.v
  THEN Return(CHOOSE x \in JsonValues : JsonDumps(x) = text.v)
  ELSE Raise("JSONDecodeError", <<"Expecting value">>)

\* Transport without the test of the status code: every answer is parsed
\* and returned
TransportUnchecked(verb, url, kw, resp) ==
  IF resp.kind = "error"
  THEN Ran(<<Exchange(verb, url, kw, resp)>>, Raise("ConnectionError", <<"connection failed">>))
  ELSE Ran(<<Exchange(verb, url, kw, resp)>>, JsonLoads(resp.text))

\* Transport that sends the request a second time when the first fails
TransportRetrying(verb, url, kw, resp) ==
  LET ex == <<Exchange(verb, url, kw, resp)>>
  IN  IF resp.kind = "error"
      THEN Ran(ex \o ex, Raise("ConnectionError", <<"connection failed">>))
      ELSE IF resp.status_code \notin {200, 201}
      THEN Ran(ex \o ex, Raise("Exception",
                                <<"request.", verb, "() failed(">> \o resp.text.v \o <<")">>))
      ELSE Ran(ex, JsonLoads(resp.text))

\* Transport that takes every status from 200 to 299 for a success
TransportAny2xx(verb, url, kw, resp) ==
  LET ex == <<Exchange(verb, url, kw, resp)>>
  IN  IF resp.kind = "error"
      THEN Ran(ex, Raise("ConnectionError", <<"connection failed">>))
      ELSE IF resp.status_code < 200 \/ resp.status_code > 299
      THEN Ran(ex, Raise("Exception",
                         <<"request.", verb, "() failed(">> \o resp.text.v \o <<")">>))
      ELSE Ran(ex, JsonLoads(resp.text))

\* the common body of _get, _post and _delete
Transport(verb, url, kw, resp) ==
  LET ex == <<Exchange(verb, url, kw, resp)>>
  IN  IF resp.kind = "error"
      THEN Ran(ex, Raise("ConnectionError", <<"connection failed">>))
      ELSE IF resp.status_code \notin {200, 201}
      THEN IF resp.text.t # "None"
           THEN Ran(ex, Raise("Exception",
                              <<"request.", verb, "() failed(">> \o resp.text.v \o <<")">>))
           ELSE Ran(ex, Raise("Exception",
                              <<"request.", verb, "() failed(status_code:">>
                                \o Digits(resp.status_code) \o <<")">>))
      ELSE Ran(ex, JsonLoads(resp.text))

_get(url, kw, resp) == Transport("get", url, kw, resp)

_post(url, kw, resp) == Transport("post", url, kw, resp)

_delete(url, kw, resp) == Transport("delete", url, kw, resp)

(***************************************************************************)
(* The request signer.                                                     *)
(***************************************************************************)

\* seconds of the nine hours the nonce's clock is shifted by
NonceShift == 9 * 3600

\* urlencode(query): 'k=v&k=v' with str() of each value (the pieces of
\* the model's texts hold no character that quoting changes)
RECURSIVE UrlEncodeFrom(_, _)
UrlEncodeFrom(q, i) ==
  LET one == q.pairs[i][1].v \o <<"=">> \o StrOf(q.pairs[i][2]).v
  IN  IF i > Len(q.pairs) THEN <<>>
      ELSE IF i = Len(q.pairs) THEN one
      ELSE one \o <<"&">> \o UrlEncodeFrom(q, i + 1)

UrlEncode(q) == PyStr(UrlEncodeFrom(q, 1))

\* jwt.encode(payload, key, 'HS256').decode('utf8'): HMAC needs a key that
\* is text
JwtEncode(payload, key) ==
  IF key.t # "str" THEN Raise("TypeError", <<"Expected a string value">>)
  ELSE Return([t |-> "jwt", payload |-> payload, key |-> key, alg |-> "HS256"])

\* instants the clock tells apart within one second: utcnow() is finer
\* than the whole seconds that int() keeps
InstantsPerSecond == 2

\* int(datetime.timestamp(datetime.utcnow() + timedelta(hours=9))), for the
\* clock at instant now
Nonce(now) == (now \div InstantsPerSecond) + NonceShift

_get_token(self, query, now) ==
  LET payload == <<<<PyStr(<<"access_key">>), self.access_key>>,
                   <<PyStr(<<"nonce">>), PyInt(Nonce(now))>>>>
  IN  IF query.t # "None"
      THEN JwtEncode(PyDict(payload \o <<<<PyStr(<<"query">>), UrlEncode(query)>>>>),
                     self.secret_key)
      ELSE JwtEncode(PyDict(payload), self.secret_key)

\* 'Bearer %s' % token
Bearer(token) == [t |-> "bearer", token |-> token]

\* _get_headers signing no query, whatever map the request carries
HeadersWithoutQuery(self, query, now) ==
  IF _get_token(self, PyNone, now).kind = "raise" THEN _get_token(self, PyNone, now)
  ELSE Return(PyDict(<<<<PyStr(<<"Authorization">>),
                        Bearer(_get_token(self, PyNone, now).value)>>>>))

_get_headers(self, query, now) ==
  LET tok == _get_token(self, query, now)
  IN  IF tok.kind = "raise" THEN tok
      ELSE Return(PyDict(<<<<PyStr(<<"Authorization">>), Bearer(tok.value)>>>>))

(***************************************************************************)
(* The endpoint methods.  self is the client's fields, now the clock at    *)
(* the call, resp the response the transport gives if the call reaches it. *)
(***************************************************************************)

Url(path) == PyStr(<<"https://api.upbit.com/v1">> \o path)

Kw(headers, params, data) == [headers |-> headers, params |-> params, data |-> data]

Item(key, value) == <<<<PyStr(<<key>>), value>>>>

\* {key: value} added to a dict being built when value is not None
ItemIfSet(key, value) == IF value.t # "None" THEN Item(key, value) ELSE <<>>

\* x not in c: a list is searched, None cannot be
NotIn(x, c) ==
  IF c.t = "None"
  THEN Raise("TypeError", <<"argument of type 'NoneType' is not iterable">>)
  ELSE Return(PyBool(\A i \in 1..Len(c.items) : c.items[i] # x))

InvalidMarket(market) == Raise("Exception", <<"invalid market: ">> \o StrOf(market).v)

\* the shared shape of the day, week, month candle and tick methods:
\* the catalog check, then a GET with the params
CheckedGet(self, market, url, params, resp) ==
  LET chk == NotIn(market, self.markets)
  IN  IF chk.kind = "raise" THEN NoHttp(chk)
      ELSE IF chk.value.b THEN NoHttp(InvalidMarket(market))
      ELSE _get(url, Kw(Absent, PyDict(params), Absent), resp)

get_market_all(self, resp) == _get(Url(<<"/market/all">>), Kw(Absent, Absent, Absent), resp)

get_minutes_candles(self, unit, market, to, count, resp) ==
  IF unit \notin {PyInt(1), PyInt(3), PyInt(5), PyInt(10), PyInt(15), PyInt(30),
                  PyInt(60), PyInt(240)}
  THEN NoHttp(Raise("Exception", <<"invalid unit: ">> \o StrOf(unit).v))
  ELSE CheckedGet(self, market, Url(<<"/candles/minutes/">> \o StrOf(unit).v),
                  Item("market", market) \o ItemIfSet("to", to) \o ItemIfSet("count", count),
                  resp)

get_days_candles(self, market, to, count, resp) ==
  CheckedGet(self, market, Url(<<"/candles/days">>),
             Item("market", market) \o ItemIfSet("to", to) \o ItemIfSet("count", count), resp)

get_weeks_candles(self, market, to, count, resp) ==
  CheckedGet(self, market, Url(<<"/candles/weeks">>),
             Item("market", market) \o ItemIfSet("to", to) \o ItemIfSet("count", count), resp)

get_months_candles(self, market, to, count, resp) ==
  CheckedGet(self, market, Url(<<"/candles/months">>),
             Item("market", market) \o ItemIfSet("to", to) \o ItemIfSet("count", count), resp)

get_trades_ticks(self, market, to, count, cursor, resp) ==
  CheckedGet(self, market, Url(<<"/trades/ticks">>),
             Item("market", market) \o ItemIfSet("to", to) \o ItemIfSet("count", count)
               \o ItemIfSet("cursor", cursor), resp)

\* ','.join(texts)
RECURSIVE Join(_, _)
Join(l, i) ==
  IF i > Len(l) THEN <<>>
  ELSE IF i = Len(l) THEN l[i].v
  ELSE l[i].v \o <<",">> \o Join(l, i + 1)

\* the shared body of get_ticker and get_orderbook: a list, not empty,
\* every symbol in the catalog (the first failing one raises)
ListedGet(self, markets, url, resp) ==
  IF markets.t # "list"
  THEN NoHttp(Raise("Exception", <<"invalid parameter: markets should be list">>))
  ELSE IF Len(markets.items) = 0
  THEN NoHttp(Raise("Exception", <<"invalid parameter: no markets">>))
  ELSE LET chk(i) == NotIn(markets.items[i], self.markets)
           bad    == {i \in 1..Len(markets.items) : chk(i).kind = "raise" \/ chk(i).value.b}
           first  == CHOOSE i \in bad : \A j \in bad : i <= j
       IN  IF bad # {}
           THEN (IF chk(first).kind = "raise" THEN NoHttp(chk(first))
                 ELSE NoHttp(InvalidMarket(markets.items[first])))
           ELSE _get(url, Kw(Absent, PyDict(Item("markets", PyStr(Join(markets.items, 1)))), Absent),
                     resp)

get_ticker(self, markets, resp) == ListedGet(self, markets, Url(<<"/ticker">>), resp)

get_orderbook(self, markets, resp) == ListedGet(self, markets, Url(<<"/orderbook">>), resp)

get_accounts(self, now, resp) ==
  LET h == _get_headers(self, PyNone, now)
  IN  IF h.kind = "raise" THEN NoHttp(h)
      ELSE _get(Url(<<"/accounts">>), Kw(h.value, Absent, Absent), resp)

get_chance(self, market, now, resp) ==
  LET chk   == NotIn(market, self.markets)
      query == PyDict(Item("market", market))
      h     == _get_headers(self, query, now)
  IN  IF chk.kind = "raise" THEN NoHttp(chk)
      ELSE IF chk.value.b THEN NoHttp(InvalidMarket(market))
      ELSE IF h.kind = "raise" THEN NoHttp(h)
      ELSE _get(Url(<<"/orders/chance">>), Kw(h.value, query, Absent), resp)

\* raise Exception(e): the message of e in a plain Exception
Reraise(ran) ==
  IF ran.outcome.kind = "raise"
  THEN Ran(ran.http, Raise("Exception", ran.outcome.msg))
  ELSE ran

\* {key: value} kept from query_pre when value is truthy
ItemIfTruthy(key, value) == IF Truthy(value) THEN Item(key, value) ELSE <<>>

get_order(self, uuid, identifier, now, resp) ==
  IF ~(Truthy(uuid) \/ Truthy(identifier))
  THEN NoHttp(Raise("Exception", <<"either uuid or identifer are required">>))
  ELSE LET query == PyDict(ItemIfTruthy("uuid", uuid) \o ItemIfTruthy("identifier", identifier))
           h     == _get_headers(self, query, now)
       IN  Reraise(IF h.kind = "raise" THEN NoHttp(h)
                   ELSE _get(Url(<<"/order">>), Kw(h.value, query, Absent), resp))

\* get_orders without the tests of state and order_by
GetOrdersUnchecked(self, market, state, page, order_by, now, resp) ==
  LET chk   == NotIn(market, self.markets)
      query == PyDict(Item("market", market) \o Item("state", state) \o Item("page", page)
                      \o Item("order_by", order_by))
      h     == _get_headers(self, query, now)
  IN  IF chk.kind = "raise" THEN NoHttp(chk)
      ELSE IF chk.value.b THEN NoHttp(InvalidMarket(market))
      ELSE IF h.kind = "raise" THEN NoHttp(h)
      ELSE _get(Url(<<"/orders">>), Kw(h.value, query, Absent), resp)

get_orders(self, market, state, page, order_by, now, resp) ==
  LET chk   == NotIn(market, self.markets)
      query == PyDict(Item("market", market) \o Item("state", state) \o Item("page", page)
                      \o Item("order_by", order_by))
      h     == _get_headers(self, query, now)
  IN  IF chk.kind = "raise" THEN NoHttp(chk)
      ELSE IF chk.value.b THEN NoHttp(InvalidMarket(market))
      ELSE IF state \notin {PyStr(<<"wait">>), PyStr(<<"done">>), PyStr(<<"cancel">>)}
      THEN NoHttp(Raise("Exception", <<"invalid state: ">> \o StrOf(state).v))
      ELSE IF order_by \notin {PyStr(<<"asc">>), PyStr(<<"desc">>)}
      THEN NoHttp(Raise("Exception", <<"invalid order_by: ">> \o StrOf(order_by).v))
      ELSE IF h.kind = "raise" THEN NoHttp(h)
      ELSE _get(Url(<<"/orders">>), Kw(h.value, query, Absent), resp)

\* OrderSteps with the two validators in the other order
OrderStepsSwapped(self, market, side, volume, price, now, resp, chk, ok, min, data, h) ==
      IF chk.kind = "raise" THEN NoHttp(chk)
      ELSE IF chk.value.b THEN NoHttp(InvalidMarket(market))
      ELSE IF side \notin {PyStr(<<"bid">>), PyStr(<<"ask">>)}
      THEN NoHttp(Raise("Exception", <<"invalid side: ">> \o StrOf(side).v))
      ELSE IF min.kind = "raise" THEN NoHttp(min)
      ELSE IF ~Truthy(min.value)
      THEN NoHttp(Raise("Exception", <<"less than minimum order amount: ">>
                                       \o StrOf(market).v \o <<", ">> \o StrOf(price).v
                                       \o <<", ">> \o StrOf(volume).v))
      ELSE IF ok.kind = "raise" THEN NoHttp(ok)
      ELSE IF ~Truthy(ok.value)
      THEN NoHttp(Raise("Exception", <<"invalid price: ">> \o StrOf(market).v \o <<", ">>
                                       \o StrOf(price).v))
      ELSE IF h.kind = "raise" THEN NoHttp(h)
      ELSE _post(Url(<<"/orders">>), Kw(h.value, Absent, data), resp)

\* order's statements, given what each call it makes returns when it is
\* reached: chk the catalog test, ok and min the validators, data the body
OrderSteps(self, market, side, volume, price, now, resp, chk, ok, min, data, h) ==
      IF chk.kind = "raise" THEN NoHttp(chk)
      ELSE IF chk.value.b THEN NoHttp(InvalidMarket(market))
      ELSE IF side \notin {PyStr(<<"bid">>), PyStr(<<"ask">>)}
      THEN NoHttp(Raise("Exception", <<"invalid side: ">> \o StrOf(side).v))
      ELSE IF ok.kind = "raise" THEN NoHttp(ok)
      ELSE IF ~Truthy(ok.value)
      THEN NoHttp(Raise("Exception", <<"invalid price: ">> \o StrOf(market).v \o <<", ">>
                                       \o StrOf(price).v))
      ELSE IF min.kind = "raise" THEN NoHttp(min)
      ELSE IF ~Truthy(min.value)
      THEN NoHttp(Raise("Exception", <<"less than minimum order amount: ">>
                                       \o StrOf(market).v \o <<", ">> \o StrOf(price).v
                                       \o <<", ">> \o StrOf(volume).v))
      ELSE IF h.kind = "raise" THEN NoHttp(h)
      ELSE _post(Url(<<"/orders">>), Kw(h.value, Absent, data), resp)

OrderData(market, side, volume, price, ord_type) ==
  PyDict(Item("market", market) \o Item("side", side) \o Item("volume", StrOf(volume))
         \o Item("price", StrOf(price)) \o Item("ord_type", ord_type))

order(self, market, side, volume, price, ord_type, now, resp) ==
  OrderSteps(self, market, side, volume, price, now, resp,
             NotIn(market, self.markets), _is_valid_price(market, price),
             _is_above_min(market, price, volume),
             OrderData(market, side, volume, price, ord_type),
             _get_headers(self, OrderData(market, side, volume, price, ord_type), now))

cancel_order(self, uuid, now, resp) ==
  LET data == PyDict(Item("uuid", uuid))
      h    == _get_headers(self, data, now)
  IN  IF h.kind = "raise" THEN NoHttp(h)
      ELSE _delete(Url(<<"/order">>), Kw(h.value, Absent, data), resp)

\* _load_markets: the symbols of the market list; None for a null body; any
\* exception is raised again as a plain Exception
_load_markets(self, resp) ==
  LET ran == get_market_all(self, resp)
      all == ran.outcome.value
      isEntry(m) == m.t = "dict" /\ \E i \in 1..Len(m.pairs) : m.pairs[i][1] = PyStr(<<"market">>)
      field(m) == m.pairs[CHOOSE i \in 1..Len(m.pairs) : m.pairs[i][1] = PyStr(<<"market">>)][2]
  IN  IF ran.outcome.kind = "raise" THEN Reraise(ran)
      ELSE IF all.t = "None" THEN Ran(ran.http, Return(PyNone))
      ELSE IF all.t = "list"
      THEN IF \A i \in 1..Len(all.items) : isEntry(all.items[i])
           THEN Ran(ran.http, Return(PyList([i \in 1..Len(all.items) |-> field(all.items[i])] \o <<>>)))
           ELSE Ran(ran.http, Raise("Exception", <<"'market'">>))
      ELSE Ran(ran.http, Raise("Exception", <<"string indices must be integers">>))

(***************************************************************************)
(* The client and its caller.                                              *)
(*   pc          "new" before PyUpbit(...) runs, "ready" with a client at  *)
(*               hand, "called" when a call has just ended, "failed" when  *)
(*               the constructor raised (there is no client)               *)
(*   access_key, secret_key, markets   the client's fields                 *)
(*   now         the clock the nonce is read from, in seconds              *)
(*   loads       how many times _load_markets has run                      *)
(*   call        the call that just ended: method, arguments, the HTTP     *)
(*               exchanges it made and its outcome                         *)
(***************************************************************************)
VARIABLES pc, access_key, secret_key, markets, now, loads, call

vars == <<pc, access_key, secret_key, markets, now, loads, call>>

MaxClock == 2

NoCall == [op |-> "none", args |-> <<>>, http |-> <<>>, outcome |-> Return(PyNone)]

Self == [access_key |-> access_key, secret_key |-> secret_key, markets |-> markets]

\* what the caller passes
Keys == {PyNone, PyStr(<<"key">>)}

Symbols == {Listed[i] : i \in 1..Len(Listed)} \cup {Unlisted}

SymbolLists ==
  {PyList(<<>>)} \cup {PyList(<<a>>) : a \in Symbols}
    \cup {PyList(<<a, b>>) : a \in {Listed[1], Unlisted}, b \in {Listed[2], Unlisted}}

Tos == {PyNone, PyStr(<<"2019-03-08T03:40:00-00:00">>)}

Counts == {PyNone, PyInt(2)}

Units == {PyInt(1), PyInt(2), PyInt(60)}

Uuids == {PyNone, PyStr(<<>>), PyStr(<<"80bca2cc">>)}

States == {PyStr(<<"wait">>), PyStr(<<"done">>), PyStr(<<"open">>)}

OrderBys == {PyStr(<<"asc">>), PyStr(<<"up">>)}

Sides == {PyStr(<<"bid">>), PyStr(<<"ask">>), PyStr(<<"buy">>)}

OrderPrices ==
  {PyNum(Dec(FALSE, 10000, 0)), PyNum(Dec(FALSE, 1005, 2)), PyNum(Dec(FALSE, 1, 0)),
   PyNum(Dec(TRUE, 100, 0))}

OrderVolumes == {PyNum(Dec(FALSE, 1, 1)), PyNum(Dec(FALSE, 5, 0)), PyNum(Dec(TRUE, 5, 0))}

\* what the server may answer
Bodies ==
  {PyStr(JsonDumps(x)) : x \in {PyNone, PyList(<<>>), MarketList, OrderInfo, PyList(<<OrderInfo>>)}}
    \cup {PyStr(<<"<html>">>)}

ErrorBodies == {PyStr(JsonDumps(ErrorInfo)), PyStr(<<>>)}

Responses ==
  {Response(c, b) : c \in {200, 201}, b \in Bodies}
    \cup {Response(c, b) : c \in {202, 404, 500}, b \in ErrorBodies}
    \cup {NoConnection}

Init ==
  /\ pc = "new"
  /\ access_key = Absent
  /\ secret_key = Absent
  /\ markets = Absent
  /\ now = 0
  /\ loads = 0
  /\ call = NoCall

\* PyUpbit(access_key, secret_key): the fields, then the catalog
Construct ==
  \E a \in Keys, k \in Keys, resp \in Responses :
    LET ran == _load_markets([access_key |-> a, secret_key |-> k, markets |-> Absent], resp)
    IN  /\ pc = "new"
        /\ access_key' = a
        /\ secret_key' = k
        /\ loads' = loads + 1
        /\ call' = [op |-> "__init__", args |-> <<a, k>>, http |-> ran.http,
                    outcome |-> IF ran.outcome.kind = "raise" THEN ran.outcome
                                ELSE Return(PyNone)]
        /\ IF ran.outcome.kind = "raise"
           THEN pc' = "failed" /\ markets' = Absent
           ELSE pc' = "called" /\ markets' = ran.outcome.value
        /\ UNCHANGED now

\* a call that takes the list it was answered with for the new catalog
CallReloading(op, args, ran) ==
  /\ pc = "ready"
  /\ pc' = "called"
  /\ call' = [op |-> op, args |-> args, http |-> ran.http, outcome |-> ran.outcome]
  /\ markets' = IF op = "get_market_all" /\ ran.outcome.kind = "return"
                THEN ran.outcome.value ELSE markets
  /\ UNCHANGED <<access_key, secret_key, now, loads>>

\* a method called on the client: it changes no field
Call(op, args, ran) ==
  /\ pc = "ready"
  /\ pc' = "called"
  /\ call' = [op |-> op, args |-> args, http |-> ran.http, outcome |-> ran.outcome]
  /\ UNCHANGED <<access_key, secret_key, markets, now, loads>>

GetMarketAll ==
  \E resp \in Responses : Call("get_market_all", <<>>, get_market_all(Self, resp))

GetMinutesCandles ==
  \E unit \in Units, market \in Symbols, count \in Counts, resp \in Responses :
    Call("get_minutes_candles", <<unit, market, PyNone, count>>,
         get_minutes_candles(Self, unit, market, PyNone, count, resp))

GetDaysCandles ==
  \E market \in Symbols, to \in Tos, count \in Counts, resp \in Responses :
    Call("get_days_candles", <<market, to, count>>,
         get_days_candles(Self, market, to, count, resp))

GetWeeksCandles ==
  \E market \in Symbols, to \in Tos, count \in Counts, resp \in Responses :
    Call("get_weeks_candles", <<market, to, count>>,
         get_weeks_candles(Self, market, to, count, resp))

GetMonthsCandles ==
  \E market \in Symbols, to \in Tos, count \in Counts, resp \in Responses :
    Call("get_months_candles", <<market, to, count>>,
         get_months_candles(Self, market, to, count, resp))

GetTradesTicks ==
  \E market \in Symbols, to \in Tos, cursor \in Counts, resp \in Responses :
    Call("get_trades_ticks", <<market, to, PyNone, cursor>>,
         get_trades_ticks(Self, market, to, PyNone, cursor, resp))

GetTicker ==
  \E ms \in SymbolLists \cup {Unlisted}, resp \in Responses :
    Call("get_ticker", <<ms>>, get_ticker(Self, ms, resp))

GetOrderbook ==
  \E ms \in SymbolLists \cup {Unlisted}, resp \in Responses :
    Call("get_orderbook", <<ms>>, get_orderbook(Self, ms, resp))

GetAccounts ==
  \E resp \in Responses : Call("get_accounts", <<>>, get_accounts(Self, now, resp))

GetChance ==
  \E market \in Symbols, resp \in Responses :
    Call("get_chance", <<market>>, get_chance(Self, market, now, resp))

GetOrder ==
  \E uuid \in Uuids, identifier \in Uuids, resp \in Responses :
    Call("get_order", <<uuid, identifier>>, get_order(Self, uuid, identifier, now, resp))

GetOrders ==
  \E market \in Symbols, state \in States, order_by \in OrderBys, resp \in Responses :
    Call("get_orders", <<market, state, PyInt(1), order_by>>,
         get_orders(Self, market, state, PyInt(1), order_by, now, resp))

Order ==
  \E market \in Symbols, side \in Sides, volume \in OrderVolumes, price \in OrderPrices,
     resp \in Responses :
    Call("order", <<market, side, volume, price, PyStr(<<"limit">>)>>,
         order(Self, market, side, volume, price, PyStr(<<"limit">>), now, resp))

CancelOrder ==
  \E uuid \in Uuids, resp \in Responses :
    Call("cancel_order", <<uuid>>, cancel_order(Self, uuid, now, resp))

\* the caller takes the result and goes on
Return_ ==
  /\ pc = "called"
  /\ pc' = "ready"
  /\ call' = NoCall
  /\ UNCHANGED <<access_key, secret_key, markets, now, loads>>

\* time passes between calls
Tick ==
  /\ pc = "ready"
  /\ now < MaxClock
  /\ now' = now + 1
  /\ UNCHANGED <<pc, access_key, secret_key, markets, loads, call>>

Next ==
  \/ Construct
  \/ GetMarketAll
  \/ GetMinutesCandles
  \/ GetDaysCandles
  \/ GetWeeksCandles
  \/ GetMonthsCandles
  \/ GetTradesTicks
  \/ GetTicker
  \/ GetOrderbook
  \/ GetAccounts
  \/ GetChance
  \/ GetOrder
  \/ GetOrders
  \/ Order
  \/ CancelOrder
  \/ Return_
  \/ Tick

Spec == Init /\ [][Next]_vars

(***************************************************************************)
(* The validators on their own: a caller applies _is_valid_price and       *)
(* _is_above_min to prices and volumes n * 10^(-k) over a range of         *)
(* mantissas and scales.                                                   *)
(***************************************************************************)
MaxScale == 11

MaxExp == 4

Mantissas == {0, 1, 3, 5, 7, 29, 100, 512, 1001, 10003}

PriceInputs == {PyNum(Dec(FALSE, n, k)) : n \in Mantissas, k \in (0 - MaxExp)..MaxScale}

VolumeInputs ==
  {PyNum(Dec(FALSE, 4, 0)), PyNum(Dec(FALSE, 5, 0)), PyNum(Dec(FALSE, 1, 3)),
   PyNum(Dec(FALSE, 9765625, -4))}

InitValidators ==
  /\ pc = "apply"
  /\ access_key = Absent
  /\ secret_key = Absent
  /\ markets = Absent
  /\ now = 0
  /\ loads = 0
  /\ call = NoCall

Applied(op, args, outcome) ==
  /\ pc = "apply"
  /\ pc' = "applied"
  /\ call' = [op |-> op, args |-> args, http |-> <<>>, outcome |-> outcome]
  /\ UNCHANGED <<access_key, secret_key, markets, now, loads>>

IsValidPrice ==
  \E market \in Symbols, price \in PriceInputs :
    Applied("_is_valid_price", <<market, price>>, _is_valid_price(market, price))

IsAboveMin ==
  \E market \in Symbols, price \in PriceInputs, volume \in VolumeInputs :
    Applied("_is_above_min", <<market, price, volume>>, _is_above_min(market, price, volume))

Again ==
  /\ pc = "applied"
  /\ pc' = "apply"
  /\ call' = NoCall
  /\ UNCHANGED <<access_key, secret_key, markets, now, loads>>

NextValidators ==
  \/ IsValidPrice
  \/ IsAboveMin
  \/ Again

SpecValidators == InitValidators /\ [][NextValidators]_vars

(***************************************************************************)
(* The signer on its own: a caller holding a client's keys asks            *)
(* _get_headers for the header of one parameter map after another, at the  *)
(* same instant of the clock or at later ones.  The last header handed     *)
(* out stays in call until the next one replaces it.                       *)
(***************************************************************************)
SignerQueries ==
  {PyNone, PyDict(<<>>),
   PyDict(Item("market", Listed[1])),
   PyDict(Item("uuid", PyStr(<<"80bca2cc">>))),
   PyDict(Item("market", Listed[1]) \o Item("state", PyStr(<<"wait">>)))}

InitSigner ==
  /\ pc = "sign"
  /\ access_key \in Keys
  /\ secret_key \in Keys
  /\ markets = Absent
  /\ now = 0
  /\ loads = 0
  /\ call = NoCall

GetHeaders ==
  \E query \in SignerQueries :
    /\ pc = "sign"
    /\ pc' = "signed"
    /\ call' = [op |-> "_get_headers", args |-> <<query>>, http |-> <<>>,
                outcome |-> _get_headers(Self, query, now)]
    /\ UNCHANGED <<access_key, secret_key, markets, now, loads>>

\* the caller keeps the header and may ask for another
Resume ==
  /\ pc = "signed"
  /\ pc' = "sign"
  /\ UNCHANGED <<access_key, secret_key, markets, now, loads, call>>

\* the clock moves on to its next instant
Later ==
  /\ pc = "sign"
  /\ now < MaxClock
  /\ now' = now + 1
  /\ UNCHANGED <<pc, access_key, secret_key, markets, loads, call>>

NextSigner ==
  \/ GetHeaders
  \/ Resume
  \/ Later

SpecSigner == InitSigner /\ [][NextSigner]_vars

(***************************************************************************)
(* Exact decimal arithmetic, to state what the validators are to compute.  *)
(* d is n * 10^(-k) with n < 2^31.                                         *)
(***************************************************************************)

\* d <= a * 10^j
ExactLe(d, a, j) ==
  IF 0 - d.k - j >= 0
  THEN BigCmp(BigMulPow10(BigFromInt(d.n), 0 - d.k - j), BigFromInt(a)) <= 0
  ELSE BigCmp(BigFromInt(d.n), BigMulPow10(BigFromInt(a), d.k + j)) <= 0

\* d is a whole multiple of a * 10^(-b), for a = 1 or a = 5
ExactMultiple(d, a, b) ==
  IF d.n = 0 THEN TRUE
  ELSE IF d.k < b THEN TRUE
  ELSE IF d.k = b THEN d.n % a = 0
  ELSE IF d.k - b >= 10 THEN FALSE
  ELSE d.n % (10^(d.k - b)) = 0 /\ (d.n \div (10^(d.k - b))) % a = 0

\* the ladder's rows: price <= a * 10^j takes the increment c * 10^(-b)
LadderRows ==
  <<[a |-> 1, j |-> 1, c |-> 1, b |-> 2], [a |-> 1, j |-> 2, c |-> 1, b |-> 1],
    [a |-> 1, j |-> 3, c |-> 1, b |-> 0], [a |-> 1, j |-> 4, c |-> 5, b |-> 0],
    [a |-> 1, j |-> 5, c |-> 1, b |-> -1], [a |-> 5, j |-> 5, c |-> 5, b |-> -1],
    [a |-> 1, j |-> 6, c |-> 1, b |-> -2], [a |-> 2, j |-> 6, c |-> 5, b |-> -2]>>

OnLadder(d) ==
  LET under == {i \in 1..Len(LadderRows) : ExactLe(d, LadderRows[i].a, LadderRows[i].j)}
      row   == CHOOSE i \in under : \A j \in under : i <= j
  IN  IF under = {} THEN ExactMultiple(d, 1, -3)
      ELSE ExactMultiple(d, LadderRows[row].c, LadderRows[row].b)

\* d has no more than m fractional decimal digits
FractionDigitsAtMost(d, m) == ExactMultiple(d, 1, m)

\* p * v >= a * 10^(-j)
ExactProductAtLeast(p, v, a, j) ==
  IF p.k + v.k >= j
  THEN BigCmp(BigMul(BigFromInt(p.n), BigFromInt(v.n)),
              BigMulPow10(BigFromInt(a), p.k + v.k - j)) >= 0
  ELSE BigCmp(BigMulPow10(BigMul(BigFromInt(p.n), BigFromInt(v.n)), j - p.k - v.k),
              BigFromInt(a)) >= 0

IsApplied(op) == pc = "applied" /\ call.op = op

\* C3: on a KRW-quoted market _is_valid_price returns true exactly when the
\* price is an exact multiple of the increment of its bracket in the tick
\* ladder.
C3_KrwLadderExact ==
  (IsApplied("_is_valid_price") /\ SplitFirst(call.args[1]) = KRW)
    => call.outcome = Return(PyBool(OnLadder(call.args[2].d)))

\* C4: on a BTC- or ETH-quoted market _is_valid_price returns true exactly
\* when the price has no more than 8 fractional decimal digits, on a
\* USDT-quoted market exactly when it has no more than 3.
C4_FractionDigitsExact ==
  /\ (IsApplied("_is_valid_price") /\ SplitFirst(call.args[1]) \in {BTC, ETH})
       => call.outcome = Return(PyBool(FractionDigitsAtMost(call.args[2].d, 8)))
  /\ (IsApplied("_is_valid_price") /\ SplitFirst(call.args[1]) = USDT)
       => call.outcome = Return(PyBool(FractionDigitsAtMost(call.args[2].d, 3)))

\* C5: _is_above_min returns true exactly when price * volume >= 500 on a
\* KRW-quoted market, and exactly when price * volume >= 0.0005 on a BTC-,
\* ETH- or USDT-quoted market.
C5_MinimumExact ==
  /\ (IsApplied("_is_above_min") /\ SplitFirst(call.args[1]) = KRW)
       => call.outcome
            = Return(PyBool(ExactProductAtLeast(call.args[2].d, call.args[3].d, 5, -2)))
  /\ (IsApplied("_is_above_min") /\ SplitFirst(call.args[1]) \in {BTC, ETH, USDT})
       => call.outcome
            = Return(PyBool(ExactProductAtLeast(call.args[2].d, call.args[3].d, 5, 4)))

(***************************************************************************)
(* What the claims speak of, read off the call that just ended.            *)
(***************************************************************************)

\* a call of method op has just ended
IsCall(op) == pc = "called" /\ call.op = op

\* the text msg begins with the pieces of prefix
StartsWith(msg, prefix) ==
  Len(msg) >= Len(prefix) /\ SubSeq(msg, 1, Len(prefix)) = prefix

\* the pieces of piece appear in msg, in a row
Carries(msg, piece) ==
  \E i \in 1..(Len(msg) + 1) :
    i + Len(piece) - 1 <= Len(msg) /\ SubSeq(msg, i, i + Len(piece) - 1) = piece

Failed(c) == c.outcome.kind = "raise"

FailedWith(c, prefix) == Failed(c) /\ StartsWith(c.outcome.msg, prefix)

\* the symbol is in the catalog the client holds
InCatalog(sym) ==
  markets.t = "list" /\ \E i \in 1..Len(markets.items) : markets.items[i] = sym

\* the methods that take one symbol, and the place of the symbol in their
\* arguments
SymbolPlace ==
  [get_minutes_candles |-> 2, get_days_candles |-> 1, get_weeks_candles |-> 1,
   get_months_candles |-> 1, get_trades_ticks |-> 1, get_chance |-> 1,
   get_orders |-> 1, order |-> 1]

ListMethods == {"get_ticker", "get_orderbook"}

\* the call that just ended was given a symbol that is not in the catalog
GivenUnknownSymbol ==
  /\ pc = "called"
  /\ \/ /\ call.op \in DOMAIN SymbolPlace
        /\ ~InCatalog(call.args[SymbolPlace[call.op]])
     \/ /\ call.op \in ListMethods
        /\ call.args[1].t = "list"
        /\ \E i \in 1..Len(call.args[1].items) : ~InCatalog(call.args[1].items[i])

\* C1: every method that takes market symbols, given a symbol that is not
\* in the catalog (for the list-taking methods: a list holding one), fails
\* with an invalid-market error and issues no HTTP request.
C1_UnknownSymbolRejected ==
  GivenUnknownSymbol
    => FailedWith(call, <<"invalid market: ">>) /\ call.http = <<>>

\* the order that just ended passed the catalog and side tests
OrderReachedChecks ==
  /\ IsCall("order")
  /\ InCatalog(call.args[1])
  /\ call.args[2] \in {PyStr(<<"bid">>), PyStr(<<"ask">>)}

IsTrue(outcome) == outcome = Return(PyBool(TRUE))

IsFalse(outcome) == outcome = Return(PyBool(FALSE))

\* the checks of order, given what the validators return on its arguments
OrderChecksHold(c, ok, min) ==
  /\ IsFalse(ok) => FailedWith(c, <<"invalid price: ">>) /\ c.http = <<>>
  /\ (IsTrue(ok) /\ IsFalse(min))
       => FailedWith(c, <<"less than minimum order amount: ">>) /\ c.http = <<>>
  /\ c.http # <<>> => IsTrue(ok) /\ IsTrue(min)

\* C2: in order() the price check comes before the minimum check and both
\* before signing and sending: an order whose price fails the tick check
\* fails with the invalid-price error, one that passes it and is below the
\* minimum fails with the minimum error, neither issues a request, and a
\* POST to /orders is made only when both checks returned true.
C2_OrderChecksBeforePost ==
  /\ OrderReachedChecks
       => OrderChecksHold(call, _is_valid_price(call.args[1], call.args[4]),
                          _is_above_min(call.args[1], call.args[4], call.args[3]))
  /\ (IsCall("order") /\ call.http # <<>>)
       => /\ OrderReachedChecks
          /\ Len(call.http) = 1
          /\ call.http[1].verb = "post"
          /\ call.http[1].url = Url(<<"/orders">>)

\* an order whose price is off the ladder and whose amount is below the
\* minimum was refused for its price
C2_Witness ==
  /\ OrderReachedChecks
  /\ call.args[1] = Listed[1]
  /\ call.args[4] = PyNum(Dec(FALSE, 1005, 2))
  /\ call.args[3] = PyNum(Dec(FALSE, 5, 0))
  /\ FailedWith(call, <<"invalid price: ">>)

SupportedQuote(sym) == SplitFirst(sym) \in {KRW, BTC, ETH, USDT}

\* C6: for a symbol whose quote prefix is none of KRW, BTC, ETH, USDT,
\* _is_valid_price raises the unsupported-quote error, and order() on it
\* issues no request, also when the symbol is in the catalog.
C6_UnsupportedQuoteRejected ==
  (IsCall("order") /\ ~SupportedQuote(call.args[1]))
    => /\ _is_valid_price(call.args[1], call.args[4])
            = Raise("Exception", <<"invalid base coin ">> \o SplitFirst(call.args[1]).v)
       /\ Failed(call)
       /\ call.http = <<>>
       /\ OrderReachedChecks
            => call.outcome = _is_valid_price(call.args[1], call.args[4])

C6_Witness ==
  /\ OrderReachedChecks
  /\ call.args[1] = Listed[4]
  /\ ~SupportedQuote(call.args[1])
  /\ FailedWith(call, <<"invalid base coin ">>)

IsSuccessStatus(resp) == resp.status_code >= 200 /\ resp.status_code < 300

\* the call that just ended (the constructor's too) got a non-2xx response
GotNon2xx ==
  /\ pc \in {"called", "failed"}
  /\ call.http # <<>>
  /\ call.http[1].resp.kind = "response"
  /\ ~IsSuccessStatus(call.http[1].resp)

PrivateMethods ==
  {"get_accounts", "get_chance", "get_order", "get_orders", "order", "cancel_order"}

PublicMethods ==
  {"get_market_all", "get_minutes_candles", "get_days_candles", "get_weeks_candles",
   "get_months_candles", "get_trades_ticks", "get_ticker", "get_orderbook"}

WithoutCredentials == access_key = PyNone \/ secret_key = PyNone

\* C8: on a client made without an access key or without a secret key,
\* every private call fails and issues no request, and every public call
\* sends no Authorization header.
C8_NoCredentialsNoPrivateCall ==
  (pc = "called" /\ WithoutCredentials)
    => /\ call.op \in PrivateMethods => Failed(call) /\ call.http = <<>>
       /\ call.op \in PublicMethods
            => \A i \in 1..Len(call.http) : call.http[i].headers = Absent

\* the symbols of a market-list body
RECURSIVE SymbolsOf(_, _)
SymbolsOf(entries, i) ==
  IF i > Len(entries) THEN <<>>
  ELSE <<entries[i].pairs[1][2]>> \o SymbolsOf(entries, i + 1)

\* C9: construction loads the catalog exactly once and either yields a
\* client whose catalog is the non-empty list of the symbols the market
\* list returned, or fails; there is never a client with an absent or
\* empty catalog, and the load is not run again.
C9_CatalogLoadedOrNoClient ==
  /\ pc # "new" => loads = 1
  /\ pc \in {"called", "ready"}
       => /\ markets.t = "list"
          /\ Len(markets.items) > 0
  /\ (pc = "called" /\ call.op = "__init__")
       => /\ call.http[1].resp.kind = "response"
          /\ call.http[1].resp.text = PyStr(JsonDumps(MarketList))
          /\ markets = PyList(SymbolsOf(MarketList.items, 1))

\* the value of key in a dict, None without the key
Lookup(d, key) ==
  IF \E i \in 1..Len(d.pairs) : d.pairs[i][1] = PyStr(<<key>>)
  THEN d.pairs[CHOOSE i \in 1..Len(d.pairs) : d.pairs[i][1] = PyStr(<<key>>)][2]
  ELSE PyNone

\* the parameter map an exchange was sent with: the query string of a
\* GET, the body of a POST or DELETE
SentMap(ex) == IF ex.verb = "get" THEN ex.params ELSE ex.data

\* the token of the exchange's Authorization header
TokenOf(ex) == Lookup(ex.headers, "Authorization").token

ParamMethods == {"get_chance", "get_order", "get_orders", "order", "cancel_order"}

\* C10: for every private call that carries parameters, the map encoded
\* into the token's query field is the map sent as the query string or
\* the body of that request.
C10_SignedMapIsSentMap ==
  (pc = "called" /\ call.op \in ParamMethods)
    => \A i \in 1..Len(call.http) :
         /\ SentMap(call.http[i]).t = "dict"
         /\ Lookup(TokenOf(call.http[i]).payload, "query")
              = UrlEncode(SentMap(call.http[i]))

C10_Witness ==
  /\ IsCall("get_orders")
  /\ Len(call.http) = 1
  /\ call.http[1].resp.kind = "response"
  /\ call.http[1].resp.status_code = 200
  /\ Len(SentMap(call.http[1]).pairs) = 4
  /\ Lookup(TokenOf(call.http[1]).payload, "query") = UrlEncode(SentMap(call.http[1]))


(***************************************************************************)
(* Claims about the signer, checked under SpecSigner.                      *)
(***************************************************************************)

HasKey(d, key) == \E i \in 1..Len(d.pairs) : d.pairs[i][1] = PyStr(<<key>>)

\* the token of the header a signing call returned
SignedToken(c) == Lookup(c.outcome.value, "Authorization").token

\* c is a signing call that returned a header
Signed(c) == c.op = "_get_headers" /\ c.outcome.kind = "return"

\* this step is a signing call with the parameter map of the one before
SignsSameAgain ==
  /\ pc = "sign"
  /\ pc' = "signed"
  /\ Signed(call)
  /\ Signed(call')
  /\ call'.args = call.args

\* C11: two signing calls with the same keys and the same parameter map,
\* at one instant or at two, give two different tokens, whose payloads
\* agree on access_key and query and differ in nonce.
C11_SameMapDistinctTokens ==
  [][SignsSameAgain
       => /\ SignedToken(call') # SignedToken(call)
          /\ Lookup(SignedToken(call').payload, "access_key")
               = Lookup(SignedToken(call).payload, "access_key")
          /\ Lookup(SignedToken(call').payload, "query")
               = Lookup(SignedToken(call).payload, "query")
          /\ Lookup(SignedToken(call').payload, "nonce")
               # Lookup(SignedToken(call).payload, "nonce")]_vars

\* C16: the signed payload has a query field exactly when the parameter
\* map is not empty (no map and the empty map both leave it out), and the
\* field is then the encoded query string of the map.
C16_QueryIffNonEmptyMap ==
  (pc = "signed" /\ Signed(call))
    => /\ HasKey(SignedToken(call).payload, "query")
            <=> (call.args[1].t = "dict" /\ call.args[1].pairs # <<>>)
       /\ (call.args[1].t = "dict" /\ call.args[1].pairs # <<>>)
            => Lookup(SignedToken(call).payload, "query") = UrlEncode(call.args[1])


(***************************************************************************)
(* Claims about the calls of a client, checked under Spec (continued).     *)
(***************************************************************************)

BadSide == IsCall("order") /\ call.args[2] \notin {PyStr(<<"bid">>), PyStr(<<"ask">>)}

BadState ==
  IsCall("get_orders")
    /\ call.args[2] \notin {PyStr(<<"wait">>), PyStr(<<"done">>), PyStr(<<"cancel">>)}

BadOrderBy ==
  IsCall("get_orders") /\ call.args[4] \notin {PyStr(<<"asc">>), PyStr(<<"desc">>)}

BadUnit ==
  IsCall("get_minutes_candles")
    /\ call.args[1] \notin {PyInt(u) : u \in {1, 3, 5, 10, 15, 30, 60, 240}}

NotAList == pc = "called" /\ call.op \in ListMethods /\ call.args[1].t # "list"

EmptyList ==
  /\ pc = "called"
  /\ call.op \in ListMethods
  /\ call.args[1].t = "list"
  /\ call.args[1].items = <<>>

NoUuid == IsCall("get_order") /\ ~Truthy(call.args[1]) /\ ~Truthy(call.args[2])

Malformed ==
  BadSide \/ BadState \/ BadOrderBy \/ BadUnit \/ NotAList \/ EmptyList \/ NoUuid

\* C12: a call with a malformed argument (side, state, order_by, unit, a
\* symbol list that is no list or is empty, neither uuid nor identifier)
\* fails without any HTTP request; where the symbol of the call is in the
\* catalog, or the call takes none, the error names the malformed argument.
C12_MalformedFailsBeforeHttp ==
  /\ Malformed => Failed(call) /\ call.http = <<>>
  /\ (BadSide /\ InCatalog(call.args[1])) => FailedWith(call, <<"invalid side: ">>)
  /\ (BadState /\ InCatalog(call.args[1])) => FailedWith(call, <<"invalid state: ">>)
  /\ (BadOrderBy /\ ~BadState /\ InCatalog(call.args[1]))
       => FailedWith(call, <<"invalid order_by: ">>)
  /\ BadUnit => FailedWith(call, <<"invalid unit: ">>)
  /\ NotAList => FailedWith(call, <<"invalid parameter: markets should be list">>)
  /\ EmptyList => FailedWith(call, <<"invalid parameter: no markets">>)
  /\ NoUuid => FailedWith(call, <<"either uuid or identifer are required">>)

\* a listing of the orders of a cataloged market in a state that does not
\* exist was refused before any request
C12_Witness ==
  /\ BadState
  /\ InCatalog(call.args[1])
  /\ call.args[4] = PyStr(<<"asc">>)
  /\ access_key = PyStr(<<"key">>)
  /\ secret_key = PyStr(<<"key">>)
  /\ FailedWith(call, <<"invalid state: ">>)
  /\ call.http = <<>>


EndpointCall == pc = "called" /\ call.op # "__init__"

\* the one request of the call was not answered with 200 or 201
RequestFailed(c) ==
  \/ c.http[1].resp.kind = "error"
  \/ c.http[1].resp.status_code \notin {200, 201}

\* C14: a call issues at most one request; one that issued none has failed
\* (in validation or signing); one whose request met a transport error or
\* a status that is no success has failed with that one request, never a
\* second; a call that returns has issued exactly one request and returns
\* the decoded JSON of its answer.
C14_OneRequestPerCall ==
  /\ pc \in {"called", "failed"} => Len(call.http) <= 1
  /\ EndpointCall
       => /\ call.http = <<>> => Failed(call)
          /\ (call.http # <<>> /\ RequestFailed(call)) => Failed(call)
          /\ ~Failed(call)
               => /\ Len(call.http) = 1
                  /\ ~RequestFailed(call)
                  /\ call.outcome = JsonLoads(call.http[1].resp.text)

\* a cancellation the server answered with 500 ended in an error after
\* its one request
C14_Witness ==
  /\ IsCall("cancel_order")
  /\ Len(call.http) = 1
  /\ call.http[1].resp.kind = "response"
  /\ call.http[1].resp.status_code = 500
  /\ Failed(call)

\* the call that just ended got an answer with a status
Answered == EndpointCall /\ call.http # <<>> /\ call.http[1].resp.kind = "response"

\* C15 as stated: every status from 200 to 299 is a success, the JSON
\* body is decoded and returned unchanged, and only other statuses fail.
C15_Every2xxSucceeds ==
  Answered
    => /\ (IsSuccessStatus(call.http[1].resp)
             /\ JsonLoads(call.http[1].resp.text).kind = "return")
            => call.outcome = JsonLoads(call.http[1].resp.text)
       /\ ~IsSuccessStatus(call.http[1].resp) => Failed(call)

\* C15, amended: the statuses 200 and 201, and no other, are a success:
\* the JSON body is decoded and returned unchanged (a body that is no JSON
\* fails in the decoder); every other status, the other 2xx too, fails
\* with the request-failed error.
C15_Only200And201Succeed ==
  Answered
    => /\ (call.http[1].resp.status_code \in {200, 201}
             /\ JsonLoads(call.http[1].resp.text).kind = "return")
            => call.outcome = JsonLoads(call.http[1].resp.text)
       /\ (call.http[1].resp.status_code \in {200, 201}
             /\ JsonLoads(call.http[1].resp.text).kind = "raise")
            => Failed(call) /\ ~StartsWith(call.outcome.msg, <<"request.">>)
       /\ call.http[1].resp.status_code \notin {200, 201}
            => FailedWith(call, <<"request.", call.http[1].verb, "() failed(">>)

\* an answer with status 202 and a JSON body ended in the request-failed error
C15_Witness ==
  /\ Answered
  /\ call.http[1].resp.status_code = 202
  /\ JsonLoads(call.http[1].resp.text).kind = "return"
  /\ FailedWith(call, <<"request.">>)


\* C18: an order that reaches the network has a price above zero and a
\* volume above zero; none with a zero or negative price or volume is
\* signed or posted.
C18_PostedOrdersArePositive ==
  (IsCall("order") /\ call.http # <<>>)
    => /\ ~call.args[4].d.neg /\ call.args[4].d.n > 0
       /\ ~call.args[3].d.neg /\ call.args[3].d.n > 0

(***************************************************************************)
(* A claim about _is_above_min, checked under SpecValidators.              *)
(***************************************************************************)

\* C17: _is_above_min ends, for every symbol, in a boolean or in an
\* error; it never returns None.
C17_AboveMinTotal ==
  IsApplied("_is_above_min")
    => \/ call.outcome.kind = "raise"
       \/ call.outcome.value.t = "bool"

====
